---- MODULE Spec2Model ----
(***************************************************************************)
(* DepthFirstGraphNodeIterator (torch/csrc/jit/runtime/graph_iterator.h).  *)
(*                                                                         *)
(* The IR is an arena: nodes are 1..g.n, g.kind[n] is the node's kind and   *)
(* g.blk[n] the block that contains it.  Block 0 is the graph's root       *)
(* block; block 2*n+i is node n's i-th child block (i = 0, 1).  Inside a   *)
(* block the nodes are linked in increasing id order.  A block's node list *)
(* is the circular list of ir.h: Param sentinel, the nodes, Return         *)
(* sentinel, and back to Param.  An iterator is the node it points at.     *)
(***************************************************************************)
EXTENDS Integers, Sequences, FiniteSets

\* largest graph a single cursor is run on
MaxNodes == 4
\* largest graph two cursors share
MaxSharedNodes == 3
\* largest graph of the runs checked for termination
MaxFairNodes == 2
\* largest graph in which nodes of any kind may own child blocks
MaxAnyNodes == 3
\* number of next() results recorded per cursor
MaxCalls == 7

\* nodes of a graph whose cursor is driven through all three public methods
MaxUpNodes == 2

\* calls of move_up and move_next a user makes directly on one cursor
MaxDirectCalls == 2

Kinds == {"Plain", "If", "Loop", "With"}
VARIABLES g, current_, out, thrown, direct,
          method_compile_spec, pc, error, pyMethod_calls, dict, gil, release

\* the state of a preprocess() call (nnapi_backend_preprocess.cpp)
pvars == <<method_compile_spec, pc, error, pyMethod_calls, dict, gil, release>>

vars == <<g, current_, out, thrown, direct, pvars>>

\* no preprocess() call is under way
NotCalled ==
  /\ method_compile_spec = <<>>
  /\ pc = "idle"
  /\ error = ""
  /\ pyMethod_calls = <<>>
  /\ dict = <<>>
  /\ gil = "free"
  /\ release = FALSE

---------------------------------------------------------------------------
(* The IR model read by the iterator.                                      *)

\* graph_node_list_iterator(): cur = nullptr
NullIt == <<"null", 0>>

NodePtr(n) == <<"node", n>>

\* Block::return_node(), the end sentinel of the block's node list
ReturnOf(b) == <<"ret", b>>

\* Block::param_node(), the head sentinel of the block's node list
ParamOf(b) == <<"param", b>>

\* graph->block()
RootBlock == 0

\* a node that sits in no block has owningBlock() == nullptr
NoBlock == -1

\* the i-th child block (i = 0, 1) of node number n
ChildBlock(n, i) == 2 * n + i

\* node->blocks().at(i)
\* blocks().at(0) whatever the index
BlockAtFirst(p, i) == ChildBlock(p[2], 0)

\* blocks().at(i)
BlockAt(p, i) == ChildBlock(p[2], i)

\* number of child blocks a node of this kind owns
NumBlocks(k) == IF k = "If" THEN 2 ELSE IF k \in {"Loop", "With"} THEN 1 ELSE 0

\* every block taken for the root block
owningNodeNone(b) == NullIt

\* block->owningNode(): nullptr for the root block
owningNode(b) == IF b = RootBlock THEN NullIt ELSE NodePtr(b \div 2)

\* node->owningBlock(); the sentinels belong to their own block
owningBlock(G, p) == IF p[1] = "node" THEN G.blk[p[2]] ELSE p[2]

\* node->kind()
kind(G, p) ==
  IF p[1] = "node" THEN G.kind[p[2]]
  ELSE IF p[1] = "ret" THEN "Return" ELSE "Param"

NodesIn(G, b) == {n \in 1..G.n : G.blk[n] = b}

SetMin(S) == CHOOSE x \in S : \A y \in S : x <= y

\* graph_node_list_iterator::operator++ : cur = cur->next_in_graph[kNextDirection]
Incr(G, p) ==
  IF p[1] = "node"
  THEN LET later == {m \in NodesIn(G, G.blk[p[2]]) : m > p[2]}
       IN  IF later = {} THEN ReturnOf(G.blk[p[2]]) ELSE NodePtr(SetMin(later))
  ELSE IF p[1] = "ret"
  THEN ParamOf(p[2])
  ELSE IF NodesIn(G, p[2]) = {} THEN ReturnOf(p[2])
       ELSE NodePtr(SetMin(NodesIn(G, p[2])))

\* block->nodes().begin()
begin(G, b) == Incr(G, ParamOf(b))

\* block->nodes().end()
end(G, b) == ReturnOf(b)

\* blocks().at(0) and blocks().at(1) taken in the wrong order
IfBlocksSwapped(p) == <<BlockAt(p, 1), BlockAt(p, 0)>>

\* then_block = blocks().at(0), else_block = blocks().at(1) of a prim::If node
IfBlocks(p) == <<BlockAt(p, 0), BlockAt(p, 1)>>

---------------------------------------------------------------------------
(* The graphs the cursor is run on: every well-formed graph of at most     *)
(* a bounded number of nodes.  A child block is owned by a lower-numbered   *)
(* node, so the ownership relation is a tree.                              *)

\* node i sits in the root block or in a child block of an earlier node
BlockChoices(n) ==
  { b \in [1..n -> 0..(2 * n - 1)] : \A i \in 1..n : b[i] # 1 /\ b[i] < 2 * i }

\* every child block that holds a node exists: its owner's kind has that block
WellFormed(n, k, b) ==
  \A i \in 1..n :
    IF b[i] = RootBlock THEN TRUE ELSE b[i] % 2 < NumBlocks(k[b[i] \div 2])

\* child blocks when a node of any other kind owns blocks too: an If node has
\* two, a Loop or With node one, any other node up to two
NumBlocksAny(k) == IF k \in {"Loop", "With"} THEN 1 ELSE 2

\* as WellFormed, but nodes of other kinds may own the block a node sits in
OwnedSomehow(n, k, b) ==
  \A i \in 1..n :
    IF b[i] = RootBlock THEN TRUE ELSE b[i] % 2 < NumBlocksAny(k[b[i] \div 2])

IsAnyGraph(G, max) ==
  \E n \in 0..max : \E b \in BlockChoices(n) : \E k \in [1..n -> Kinds] :
    /\ OwnedSomehow(n, k, b)
    /\ G = [n |-> n, kind |-> k, blk |-> b]

IsGraph(G, max) ==
  \E n \in 0..max : \E b \in BlockChoices(n) : \E k \in [1..n -> Kinds] :
    /\ WellFormed(n, k, b)
    /\ G = [n |-> n, kind |-> k, blk |-> b]

---------------------------------------------------------------------------
(* The iterator.                                                           *)

\* the scan of the block left out
ScanToFirst(G, it, target) == it

\* while (*it != target) ++it;
RECURSIVE ScanTo(_, _, _)
ScanTo(G, it, target) ==
  IF it = target THEN it ELSE ScanTo(G, Incr(G, it), target)

\* current_ = it, no exception; ups lists the arguments of the move_up calls made
Moved(it) == [current_ |-> it, thrown |-> "none", ups |-> <<>>]

\* a runtime_error swallowed: the cursor signals normal exhaustion instead
ThrowIgnored(cur, msg) == Moved(NullIt)

\* throw std::runtime_error(msg): current_ keeps the value it had
Throw(cur, msg) == [current_ |-> cur, thrown |-> msg, ups |-> <<>>]

\* the outcome r of a move_up call whose argument was from
Called(from, r) == [r EXCEPT !.ups = <<from>> \o @]

\* a climb that gives up at once
move_up_exhaust(G, cur, from) == Called(from, Moved(NullIt))

RECURSIVE move_up(_, _, _)
move_up(G, cur, from) ==
  Called(from,
  LET parent_block == owningBlock(G, from) IN
  IF parent_block = NoBlock THEN Moved(NullIt)
  ELSE
  LET owning_node == owningNode(parent_block) IN
  IF owning_node = NullIt
  THEN LET it == Incr(G, ScanTo(G, begin(G, parent_block), from))
       IN  IF it = end(G, parent_block) THEN Moved(NullIt) ELSE Moved(it)
  ELSE
  LET owning_node_block == owningBlock(G, owning_node)
      owning_node_it == ScanTo(G, begin(G, owning_node_block), owning_node)
      after == Incr(G, owning_node_it)
      \* current_ = owning_node_it; ++current_; if (at end) move_up(*owning_node_it);
      to_next == IF after = end(G, owning_node_block)
                 THEN move_up(G, after, owning_node_it)
                 ELSE Moved(after)
  IN
  \* line 59 tests owning_node again, which is not nullptr here
  IF owning_node = NullIt
  THEN Throw(cur, "Every node should be owned by a block")
  ELSE
  IF kind(G, owning_node) = "If"
  THEN LET then_block == IfBlocks(owning_node)[1]
           else_block == IfBlocks(owning_node)[2]
       IN  IF parent_block = else_block
           THEN to_next
           ELSE LET else_block_empty == begin(G, else_block) = end(G, else_block)
                IN  IF ~ else_block_empty
                    THEN Moved(begin(G, else_block))
                    ELSE to_next
  ELSE IF kind(G, owning_node) = "Loop" \/ kind(G, owning_node) = "With"
  THEN to_next
  ELSE Throw(cur, "Node should not have had any child blocks."))

move_next_body(G, cur) ==
  LET block == owningBlock(G, cur)
      node == cur
  IN
  IF kind(G, node) = "If"
  THEN LET then_block == IfBlocks(node)[1]
           else_block == IfBlocks(node)[2]
           then_block_empty == begin(G, then_block) = end(G, then_block)
           else_block_empty == begin(G, else_block) = end(G, else_block)
       IN  IF ~ then_block_empty THEN Moved(begin(G, then_block))
           ELSE IF ~ else_block_empty THEN Moved(begin(G, else_block))
           ELSE move_up(G, cur, cur)
  ELSE IF kind(G, node) = "Loop" \/ kind(G, node) = "With"
  THEN LET body_block == BlockAt(node, 0)
           body_block_empty == begin(G, body_block) = end(G, body_block)
       IN  IF ~ body_block_empty THEN Moved(begin(G, body_block)) ELSE Moved(cur)
  ELSE LET previous == cur
           it == Incr(G, cur)
       IN  IF it = end(G, block) THEN move_up(G, it, previous) ELSE Moved(it)

\* the guard of lines 111-113 restarting at the root block instead of returning
move_next_restart(G, cur) ==
  IF cur = NullIt THEN Moved(begin(G, RootBlock)) ELSE move_next_body(G, cur)

\* the body block of a Loop or With node entered without the emptiness test
move_next_unchecked(G, cur) ==
  IF cur = NullIt THEN Moved(cur)
  ELSE IF kind(G, cur) = "Loop" \/ kind(G, cur) = "With"
  THEN Moved(begin(G, BlockAt(cur, 0)))
  ELSE move_next_body(G, cur)

\* the first block of a node of any other kind entered like a Loop body
move_next_any_owner(G, cur) ==
  IF cur = NullIt THEN Moved(cur)
  ELSE IF /\ cur[1] = "node"
          /\ kind(G, cur) \notin {"If", "Loop", "With"}
          /\ begin(G, BlockAt(cur, 0)) # end(G, BlockAt(cur, 0))
  THEN Moved(begin(G, BlockAt(cur, 0)))
  ELSE move_next_body(G, cur)

move_next(G, cur) ==
  IF cur = NullIt THEN Moved(cur) ELSE move_next_body(G, cur)

\* current_ as one object shared by every iterator (a static member)
SetCurrentShared(cs, c, it) == [d \in DOMAIN cs |-> it]

\* the member current_ belongs to one iterator object
SetCurrent(cs, c, it) == [cs EXCEPT ![c] = it]

\* current_(graph->block()->nodes().begin()) for each cursor constructed
Start(cursors) ==
  /\ current_ = [c \in cursors |-> begin(g, RootBlock)]
  /\ out = [c \in cursors |-> <<>>]
  /\ thrown = [c \in cursors |-> "none"]
  /\ direct = [c \in cursors |-> 0]
  /\ NotCalled

\* DepthFirstGraphNodeIterator(graph): current_(graph->block()->nodes().begin())
Construct(max, cursors) == IsGraph(g, max) /\ Start(cursors)

\* the same constructor on a graph in which nodes of any kind may own blocks
ConstructAny(max, cursors) == IsAnyGraph(g, max) /\ Start(cursors)

\* root block [A, Region(body=[B, Region(body=[C])]), D]
NestedRegions ==
  [n |-> 6, kind |-> <<"Plain", "Loop", "Plain", "With", "Plain", "Plain">>,
   blk |-> <<0, 0, ChildBlock(2, 0), ChildBlock(2, 0), ChildBlock(4, 0), 0>>]

\* root block [P], the Plain node P owning the block [Loop(body=[X])]
PlainOwnsLoop ==
  [n |-> 3, kind |-> <<"Plain", "Loop", "Plain">>,
   blk |-> <<0, ChildBlock(1, 0), ChildBlock(2, 0)>>]

\* root block [A, B, C]
ThreePlain == [n |-> 3, kind |-> <<"Plain", "Plain", "Plain">>, blk |-> <<0, 0, 0>>]

Cursors == DOMAIN current_

\* one cursor over a graph in which any node may own child blocks: any such
\* graph of at most MaxUpNodes nodes, or one of the two graphs above
InitUp ==
  /\ (IsAnyGraph(g, MaxUpNodes) \/ g = PlainOwnsLoop \/ g = ThreePlain)
  /\ Start({1})

\* one cursor over a graph: any graph of at most MaxNodes nodes, or the nested
\* regions
Init == (IsGraph(g, MaxNodes) \/ g = NestedRegions) /\ Start({1})

\* two cursors over the same graph
InitTwo == Construct(MaxSharedNodes, {1, 2})

\* next() with a flag shared by all objects (a static local): the first call
\* ever made returns *current_ without moving on
next_static_flag(c) ==
  /\ LET result == current_[c]
         first == \A d \in Cursors : out[d] = <<>>
         m == IF first THEN Moved(current_[c]) ELSE move_next(g, current_[c])
     IN  /\ current_' = SetCurrent(current_, c, m.current_)
         /\ thrown' = [thrown EXCEPT ![c] = IF m.thrown # "none" THEN m.thrown ELSE @]
         /\ out' = IF Len(out[c]) < MaxCalls /\ m.thrown = "none"
                   THEN [out EXCEPT ![c] = Append(@, result)]
                   ELSE out
  /\ UNCHANGED <<g, direct, pvars>>

\* the last runtime_error that left a call on the cursor, if any: the caller
\* that catches it goes on using the object
Raised(old, new) == IF new # "none" THEN new ELSE old

\* Node* next(): result = *current_; move_next(); return result.
\* out[c] records the results of cursor c's first MaxCalls calls; a call that
\* throws returns nothing.
next(c) ==
  /\ LET result == current_[c]
         m == move_next(g, current_[c])
     IN  /\ current_' = SetCurrent(current_, c, m.current_)
         /\ thrown' = [thrown EXCEPT ![c] = Raised(@, m.thrown)]
         /\ out' = IF Len(out[c]) < MaxCalls /\ m.thrown = "none"
                   THEN [out EXCEPT ![c] = Append(@, result)]
                   ELSE out
  /\ UNCHANGED <<g, direct, pvars>>

\* the public method move_up(from) called by the user on a node of the graph
call_move_up(c, from) ==
  /\ direct[c] < MaxDirectCalls
  /\ LET m == move_up(g, current_[c], from)
     IN  /\ current_' = SetCurrent(current_, c, m.current_)
         /\ thrown' = [thrown EXCEPT ![c] = Raised(@, m.thrown)]
  /\ direct' = [direct EXCEPT ![c] = @ + 1]
  /\ UNCHANGED <<g, out, pvars>>

\* the public method move_next() called by the user: the cursor moves on and
\* nothing is returned
call_move_next(c) ==
  /\ direct[c] < MaxDirectCalls
  /\ LET m == move_next(g, current_[c])
     IN  /\ current_' = SetCurrent(current_, c, m.current_)
         /\ thrown' = [thrown EXCEPT ![c] = Raised(@, m.thrown)]
  /\ direct' = [direct EXCEPT ![c] = @ + 1]
  /\ UNCHANGED <<g, out, pvars>>

\* a caller that only calls next()
Next == \E c \in Cursors : next(c)

\* a caller that uses the three public methods
NextOrUp ==
  \/ \E c \in Cursors : next(c)
  \/ \E c \in Cursors : \E n \in 1..g.n : call_move_up(c, NodePtr(n))
  \/ \E c \in Cursors : call_move_next(c)

Spec == Init /\ [][Next]_vars

\* a caller that keeps calling next() on its cursor
FairSpec == Construct(MaxFairNodes, {1}) /\ [][Next]_vars /\ WF_vars(next(1))

\* two cursors whose next() calls interleave in any order
SpecTwo == InitTwo /\ [][Next]_vars

\* one cursor from the root of a graph in which any node may own child blocks
SpecAny == ConstructAny(MaxAnyNodes, {1}) /\ [][Next]_vars

\* the same, the user calling next(), move_up(from) and move_next() in any order
SpecUp == InitUp /\ [][NextOrUp]_vars

---------------------------------------------------------------------------
(* preprocess (torch/csrc/jit/backends/nnapi/nnapi_backend_preprocess.cpp). *)
(* An IValue is its type tag and, for a GenericDict, the dictionary as a    *)
(* function from its keys.                                                  *)

IValue(tag, d) == [tag |-> tag, d |-> d]

LeafTags == {"Tensor", "TensorList", "Int", "String"}

\* the dictionaries with keys among keys and values among vals
DictsOver(keys, vals) == UNION {[K -> vals] : K \in SUBSET keys}

\* what may be stored under the "inputs" key
InputValues == {IValue(t, <<>>) : t \in LeafTags \cup {"GenericDict"}}

\* what may be stored under a key of method_compile_spec
OuterValues ==
  {IValue(t, <<>>) : t \in LeafTags}
    \cup {IValue("GenericDict", d) : d \in DictsOver({"inputs", "outputs"}, InputValues)}

\* the compile specs preprocess is called with
CompileSpecs == DictsOver({"forward", "other"}, OuterValues)

contains(d, key) == key \in DOMAIN d
at(d, key) == d[key]
isGenericDict(v) == v.tag = "GenericDict"
toGenericDict(v) == v.d
isTensor(v) == v.tag = "Tensor"

\* every value taken for a list of tensors
isAnything(v) == TRUE

isTensorList(v) == v.tag = "TensorList"

NoForwardKey == "method_compile_spec does not contain the \"forward\" key."
NoInputsKey ==
  "method_compile_spec does not contain a dictionary with an \"inputs\" key, under it's \"forward\" key."
NoTensor ==
  "method_compile_spec does not contain either a Tensor or TensorList, under it's \"inputs\" key."

\* the value of error when the tests of the compile spec are done
Validate(spec) ==
  IF ~ contains(spec, "forward") THEN NoForwardKey
  ELSE LET innerDict == at(spec, "forward") IN
       IF ~ isGenericDict(innerDict) \/ ~ contains(toGenericDict(innerDict), "inputs")
       THEN NoInputsKey
       ELSE LET inp == at(toGenericDict(innerDict), "inputs") IN
            IF ~ isTensor(inp) /\ ~ isTensorList(inp) THEN NoTensor ELSE ""

\* the argument pyMethod is called with: the tensor or a python list
Convert(spec) ==
  LET inp == at(toGenericDict(at(spec, "forward")), "inputs")
  IN  IF isTensor(inp) THEN <<"Tensor">> ELSE <<"list">>

\* a call of preprocess(mod, method_compile_spec, generate_debug_handles); the
\* interpreter lock is free, held by another thread, or held already by the
\* thread that calls preprocess
InitPreprocess ==
  /\ method_compile_spec \in CompileSpecs
  /\ pc = "called"
  /\ error = ""
  /\ pyMethod_calls = <<>>
  /\ dict = <<>>
  /\ gil \in {"free", "other", "preprocess"}
  /\ release = FALSE
  /\ g = [n |-> 0, kind |-> <<>>, blk |-> <<>>]
  /\ current_ = <<>>
  /\ out = <<>>
  /\ thrown = <<>>
  /\ direct = <<>>

iter == <<g, current_, out, thrown, direct>>

\* py::gil_scoped_acquire gil: when the thread holds the interpreter lock
\* already nothing is taken; otherwise it waits until the lock is free and
\* takes it, and release records that the destructor has to give it back
gil_scoped_acquire ==
  /\ pc = "called"
  /\ IF gil = "preprocess"
     THEN release' = FALSE /\ gil' = gil
     ELSE gil = "free" /\ release' = TRUE /\ gil' = "preprocess"
  /\ pc' = "acquired"
  /\ UNCHANGED <<method_compile_spec, error, pyMethod_calls, dict, iter>>

\* an exception of the interpreter (py::error_already_set), of py::cast or of
\* the serialisation starts to leave preprocess: the locals are still to be
\* destroyed, the lock is still held
Raise ==
  /\ pc' = "raising"
  /\ gil' = gil

\* one call made with the lock held, from position from: it returns, at
\* position to, or raises
Step(from, to) ==
  /\ pc = from
  /\ gil = "preprocess"
  /\ \E raises \in BOOLEAN :
       IF raises THEN Raise ELSE pc' = to /\ gil' = gil

\* py::module_::import("torch.backends._nnapi.prepare")
import_prepare ==
  /\ Step("acquired", "imported")
  /\ UNCHANGED <<method_compile_spec, error, pyMethod_calls, dict, release, iter>>

\* pyModule.attr("convert_model_to_nnapi")
attr_pyMethod ==
  /\ Step("imported", "got_pyMethod")
  /\ UNCHANGED <<method_compile_spec, error, pyMethod_calls, dict, release, iter>>

\* py::module::import("torch.jit._recursive").attr("wrap_cpp_module")
import_recursive ==
  /\ Step("got_pyMethod", "got_wrap")
  /\ UNCHANGED <<method_compile_spec, error, pyMethod_calls, dict, release, iter>>

\* out = wrap_cpp_module(mod)
wrap_cpp_module ==
  /\ Step("got_wrap", "wrapped")
  /\ UNCHANGED <<method_compile_spec, error, pyMethod_calls, dict, release, iter>>

\* out.attr("eval")()
out_eval ==
  /\ Step("wrapped", "evaled")
  /\ UNCHANGED <<method_compile_spec, error, pyMethod_calls, dict, release, iter>>

\* the tests of method_compile_spec and the throw of the runtime_error, whose
\* unwinding is still to destroy the locals
validate ==
  /\ pc = "evaled"
  /\ gil = "preprocess"
  /\ error' = Validate(method_compile_spec)
  /\ pc' = IF error' # "" THEN "throwing" ELSE "validated"
  /\ gil' = gil
  /\ UNCHANGED <<method_compile_spec, pyMethod_calls, dict, release, iter>>

\* the arguments of pyMethod: inp.toTensor() made a Python object, or the
\* py::list pyInp filled; pyMethod is not called yet
prepare_args ==
  /\ Step("validated", "prepared")
  /\ UNCHANGED <<method_compile_spec, error, pyMethod_calls, dict, release, iter>>

\* nnapi_pyModel = pyMethod(out, ...): convert_model_to_nnapi is called, and
\* returns or raises
call_pyMethod ==
  /\ Step("prepared", "converted")
  /\ pyMethod_calls' = pyMethod_calls \o Convert(method_compile_spec)
  /\ UNCHANGED <<method_compile_spec, error, dict, release, iter>>

\* py::cast<torch::jit::Module>(nnapi_pyModel.attr("_c"))
cast_module ==
  /\ Step("converted", "casted")
  /\ UNCHANGED <<method_compile_spec, error, pyMethod_calls, dict, release, iter>>

\* nnapi_model._save_for_mobile(ss), which returns or throws, then the
\* dictionary with the entry "NnapiModule" is built and the return begun
save_for_mobile ==
  /\ pc = "casted"
  /\ gil = "preprocess"
  /\ \E raises \in BOOLEAN :
       IF raises
       THEN Raise /\ dict' = dict
       ELSE /\ dict' = [k \in {"NnapiModule"} |-> "ss.str()"]
            /\ pc' = "returning"
            /\ gil' = gil
  /\ UNCHANGED <<method_compile_spec, error, pyMethod_calls, release, iter>>

\* leaving preprocess, by the return or by an exception: nnapi_pyModel, out,
\* pyMethod and pyModule are destroyed, then gil, declared first, is destroyed
\* last and releases the lock if it is the one that took it
unwind ==
  /\ pc \in {"throwing", "raising", "returning"}
  /\ gil = "preprocess"
  /\ pc' = IF pc = "throwing" THEN "thrown"
           ELSE IF pc = "raising" THEN "raised" ELSE "returned"
  /\ gil' = IF release THEN "free" ELSE gil
  /\ UNCHANGED <<method_compile_spec, error, pyMethod_calls, dict, release, iter>>

\* the positions between the acquisition of the lock and its release: at each
\* of them Python code may run (a call into the interpreter, an allocation
\* that starts the collector, the finalizer of a py::object that is destroyed)
\* and the interpreter may hand the lock to another thread
InPython ==
  {"acquired", "imported", "got_pyMethod", "got_wrap", "wrapped", "evaled",
   "validated", "prepared", "converted", "casted", "throwing", "raising",
   "returning"}

\* the interpreter, while preprocess runs Python code, gives the lock away
switch_out ==
  /\ pc \in InPython
  /\ gil = "preprocess"
  /\ gil' = "free"
  /\ UNCHANGED <<method_compile_spec, pc, error, pyMethod_calls, dict, release, iter>>

\* and takes it back before preprocess goes on
switch_in ==
  /\ pc \in InPython
  /\ gil = "free"
  /\ gil' = "preprocess"
  /\ UNCHANGED <<method_compile_spec, pc, error, pyMethod_calls, dict, release, iter>>

\* another thread takes or gives back the interpreter lock
other_thread ==
  /\ gil \in {"free", "other"}
  /\ gil' = IF gil = "free" THEN "other" ELSE "free"
  /\ UNCHANGED <<method_compile_spec, pc, error, pyMethod_calls, dict, release, iter>>

\* the steps of one call of preprocess
preprocess ==
  \/ gil_scoped_acquire
  \/ import_prepare
  \/ attr_pyMethod
  \/ import_recursive
  \/ wrap_cpp_module
  \/ out_eval
  \/ validate
  \/ prepare_args
  \/ call_pyMethod
  \/ cast_module
  \/ save_for_mobile
  \/ unwind
  \/ switch_out
  \/ switch_in

NextPreprocess == preprocess \/ other_thread

SpecPreprocess == InitPreprocess /\ [][NextPreprocess]_vars

---------------------------------------------------------------------------
(* Reference: the pre-order flattening of the graph, and what the claims   *)
(* say about the cursor's results.                                         *)

RECURSIVE Flatten(_, _, _)
\* the nodes of block b numbered from lo on: each node, then the nodes under
\* its child blocks in declared order, then the node's following siblings
Flatten(G, b, lo) ==
  LET rest == {n \in NodesIn(G, b) : n >= lo} IN
  IF rest = {} THEN <<>>
  ELSE LET n == SetMin(rest)
       IN  <<NodePtr(n)>> \o Flatten(G, ChildBlock(n, 0), 1)
                          \o Flatten(G, ChildBlock(n, 1), 1)
                          \o Flatten(G, b, n + 1)

PreOrder(G) == Flatten(G, RootBlock, 1)

\* the i-th result of the reference traversal: nullptr once the nodes are used up
RefResult(G, i) == IF i <= Len(PreOrder(G)) THEN PreOrder(G)[i] ELSE NullIt

\* the node the reference traversal returns right after node p
RefSucc(G, p) ==
  LET i == CHOOSE j \in 1..Len(PreOrder(G)) : PreOrder(G)[j] = p
  IN  RefResult(G, i + 1)

AllNodes(G) == {NodePtr(n) : n \in 1..G.n}

IsControl(G, n) == G.kind[n] \in {"If", "Loop", "With"}

IsEmpty(G, b) == NodesIn(G, b) = {}

\* positions at which cursor c returned p
Positions(c, p) == {i \in 1..Len(out[c]) : out[c][i] = p}

\* some next() call of cursor c has returned nullptr
Exhausted(c) == Positions(c, NullIt) # {}

\* the results cursor c returned before its first nullptr
BeforeExhaustion(c) ==
  SubSeq(out[c], 1, SetMin(Positions(c, NullIt)) - 1)

RECURSIVE Under(_, _, _)
\* node n lies in block b or in a block nested below it
Under(G, n, b) ==
  IF G.blk[n] = b THEN TRUE
  ELSE IF G.blk[n] = RootBlock THEN FALSE
  ELSE Under(G, G.blk[n] \div 2, b)

RECURSIVE SoloAt(_, _)
\* the position of a cursor that runs alone, after i calls of next()
SoloAt(G, i) ==
  IF i = 0 THEN begin(G, RootBlock) ELSE move_next(G, SoloAt(G, i - 1)).current_

---------------------------------------------------------------------------
(* The claims.                                                             *)

\* C1 (completeness): a cursor driven until next() returns nullptr has returned
\* every node of every block exactly once, so the number of nodes returned
\* equals the total node count; no node is returned twice.
C1_Completeness ==
  \A c \in Cursors :
    /\ \A p \in AllNodes(g) : Cardinality(Positions(c, p)) <= 1
    /\ Exhausted(c) =>
         /\ Len(BeforeExhaustion(c)) = g.n
         /\ \A p \in AllNodes(g) : Positions(c, p) # {}

\* C2 (equivalence with the reference traversal): the results of the cursor
\* are, element for element and including the point of exhaustion, the results
\* of the reference pre-order traversal.
C2_MatchesReference ==
  \A c \in Cursors : \A i \in 1..Len(out[c]) : out[c][i] = RefResult(g, i)

\* C3 (termination): a caller that keeps calling next() on a fresh cursor
\* eventually receives nullptr.
C3_Terminates == <>(\A c \in Cursors : Exhausted(c))

\* C4 (an empty region body does not stall): the result that follows a Loop or
\* With node whose body block is empty is the node that follows that node in
\* the pre-order, never the same node again.
C4_EmptyRegionAdvances ==
  \A c \in Cursors : \A i \in 1..(Len(out[c]) - 1) :
    LET p == out[c][i] IN
    (/\ p \in AllNodes(g)
     /\ g.kind[p[2]] \in {"Loop", "With"}
     /\ IsEmpty(g, ChildBlock(p[2], 0)))
      => /\ out[c][i + 1] # p
         /\ out[c][i + 1] = RefSucc(g, p)

\* C5 (empty graph): when the root block has no node, the very first next()
\* call returns nullptr, not a node and not a sentinel of the block.
C5_EmptyGraphExhausted ==
  \A c \in Cursors :
    (IsEmpty(g, RootBlock) /\ Len(out[c]) >= 1) => out[c][1] = NullIt

\* C6 (pre-order containment): every node M of a child block of a control
\* node N is returned, strictly after N, and strictly before N's next sibling;
\* when N has no next sibling, before the traversal is exhausted.
C6_PreOrderContainment ==
  \A c \in Cursors : \A N \in 1..g.n : \A M \in 1..g.n :
    (IsControl(g, N) /\ g.blk[M] \in {ChildBlock(N, 0), ChildBlock(N, 1)}) =>
      LET posN == Positions(c, NodePtr(N))
          posM == Positions(c, NodePtr(M))
          sibling == Incr(g, NodePtr(N))
          posS == IF sibling = end(g, g.blk[N]) THEN Positions(c, NullIt)
                  ELSE Positions(c, sibling)
      IN  /\ \A j \in posM : \E i \in posN : i < j
          /\ \A k \in posS : \E j \in posM : j < k
          /\ Exhausted(c) => posM # {}

\* C7 (both-branches rule): for an If node whose then-block and else-block are
\* both non-empty, every node returned from under the then-block is returned
\* before every node returned from under the else-block.
C7_ThenBeforeElse ==
  \A c \in Cursors : \A N \in 1..g.n :
    (/\ g.kind[N] = "If"
     /\ ~ IsEmpty(g, ChildBlock(N, 0))
     /\ ~ IsEmpty(g, ChildBlock(N, 1))) =>
      \A i \in 1..Len(out[c]) : \A j \in 1..Len(out[c]) :
        (/\ out[c][i] \in AllNodes(g) /\ Under(g, out[c][i][2], ChildBlock(N, 0))
         /\ out[c][j] \in AllNodes(g) /\ Under(g, out[c][j][2], ChildBlock(N, 1)))
          => i < j

\* a then-block node and an else-block node of the same If have both been returned
C7_Witness ==
  \E c \in Cursors : \E N \in 1..g.n :
    /\ g.kind[N] = "If"
    /\ \E i \in 1..Len(out[c]) : \E j \in 1..Len(out[c]) :
        /\ out[c][i] \in AllNodes(g) /\ Under(g, out[c][i][2], ChildBlock(N, 0))
        /\ out[c][j] \in AllNodes(g) /\ Under(g, out[c][j][2], ChildBlock(N, 1))

\* C8 (exhaustion is absorbing): once a next() call has returned nullptr, every
\* later call returns nullptr too, and the cursor stays the default iterator.
C8_ExhaustionAbsorbing ==
  \A c \in Cursors :
    Exhausted(c) =>
      /\ current_[c] = NullIt
      /\ \A i \in 1..Len(out[c]) : \A j \in 1..Len(out[c]) :
           (out[c][i] = NullIt /\ i < j) => out[c][j] = NullIt

\* a non-empty graph was traversed, nullptr was returned and next() called again
C8_Witness ==
  \E c \in Cursors :
    /\ \E i \in 1..Len(out[c]) : out[c][i] \in AllNodes(g)
    /\ Cardinality(Positions(c, NullIt)) >= 2

C10_Independent ==
  /\ [](\A c \in Cursors : \A i \in 1..Len(out[c]) : out[c][i] = SoloAt(g, i - 1))
  /\ [][\A c \in Cursors : next(c) =>
          /\ g' = g
          /\ \A d \in Cursors \ {c} :
               current_'[d] = current_[d] /\ out'[d] = out[d]]_vars

\* the two cursors stand at different positions after interleaved calls
C10_Witness ==
  /\ Cardinality(Cursors) = 2
  /\ \E c \in Cursors : \E d \in Cursors :
       /\ Len(out[c]) >= 2
       /\ Len(out[d]) >= 1
       /\ Len(out[d]) < Len(out[c])
       /\ current_[c] # current_[d]
       /\ current_[d] \in AllNodes(g)

\* C11 (an invalid owner kind is fatal): a move_up call, made by the user or
\* by next(), that climbs out of a non-root block whose owning node is neither
\* If nor Loop nor With throws "Node should not have had any child blocks." and
\* climbs no further: it neither moves on to another node nor signals
\* exhaustion.
InvalidOwner(G, p) ==
  /\ p[1] = "node"
  /\ G.blk[p[2]] # RootBlock
  /\ G.kind[G.blk[p[2]] \div 2] \notin {"If", "Loop", "With"}

NoChildBlocksError == "Node should not have had any child blocks."

FatalOnInvalidOwner(G, m) ==
  \A i \in 1..Len(m.ups) :
    InvalidOwner(G, m.ups[i]) => (m.thrown = NoChildBlocksError /\ i = Len(m.ups))

C11_InvalidOwnerFatal ==
  \A c \in Cursors :
    /\ FatalOnInvalidOwner(g, move_next(g, current_[c]))
    /\ \A n \in 1..g.n : FatalOnInvalidOwner(g, move_up(g, current_[c], NodePtr(n)))
    /\ thrown[c] \in {"none", NoChildBlocksError}

\* a climb out of a block owned by a node of another kind has thrown
C11_Witness ==
  \E c \in Cursors : thrown[c] = NoChildBlocksError

\* the first test of lines 43-57 that method_compile_spec fails, "" if none
FirstFailure(s) ==
  IF "forward" \notin DOMAIN s THEN NoForwardKey
  ELSE IF s["forward"].tag # "GenericDict" \/ "inputs" \notin DOMAIN s["forward"].d
  THEN NoInputsKey
  ELSE IF s["forward"].d["inputs"].tag \notin {"Tensor", "TensorList"} THEN NoTensor
  ELSE ""

\* C12 as stated (preprocess validation): once preprocess is over, it has
\* raised an error without calling the conversion when method_compile_spec
\* has no "forward" key, or the "forward" value is not a dictionary with an
\* "inputs" key, or the "inputs" value is neither a Tensor nor a Tensor list,
\* the first failure giving the message; otherwise it has called the
\* conversion exactly once and returned a dictionary whose only key is
\* "NnapiModule".
C12_PreprocessValidation ==
  pc \in {"thrown", "raised", "returned"} =>
    IF FirstFailure(method_compile_spec) # ""
    THEN /\ pc \in {"thrown", "raised"}
         /\ pc = "thrown" => error = FirstFailure(method_compile_spec)
         /\ pyMethod_calls = <<>>
    ELSE /\ pc = "returned"
         /\ Len(pyMethod_calls) = 1
         /\ DOMAIN dict = {"NnapiModule"}

\* the positions of preprocess after the tests were passed
PastTests == {"validated", "prepared", "converted", "casted", "returning", "returned"}

\* the positions after the call of the conversion returned
PastConversion == {"converted", "casted", "returning", "returned"}

\* C12 amended: every call of preprocess ends in one of three ways.  On a
\* method_compile_spec that fails a test it never calls the conversion and
\* never returns: it leaves by the runtime_error with the message of the first
\* failing test, or by the exception of a Python call made before the tests.
\* On one that passes the tests it never throws that runtime_error and calls
\* the conversion at most once: it returns, the conversion called exactly
\* once, a dictionary whose only key is "NnapiModule", or it leaves by the
\* exception of a call (Python, the arguments, the cast, the serialisation),
\* no dictionary returned.  On each of the three exits the lock is given back
\* if preprocess took it and is still held by the thread if the thread held
\* it at the call.
C12_ThreeExits ==
  LET failure == FirstFailure(method_compile_spec) IN
  /\ failure # "" =>
       /\ pyMethod_calls = <<>>
       /\ dict = <<>>
       /\ pc \notin PastTests
       /\ pc \in {"throwing", "thrown"} => error = failure
       /\ pc \in {"raising", "raised"} => error = ""
  /\ failure = "" =>
       /\ pc \notin {"throwing", "thrown"}
       /\ error = ""
       /\ Len(pyMethod_calls) <= 1
       /\ pc \in PastConversion => Len(pyMethod_calls) = 1
       /\ pc \notin PastConversion \cup {"raising", "raised"} => pyMethod_calls = <<>>
       /\ pc \in {"returning", "returned"} => DOMAIN dict = {"NnapiModule"}
       /\ pc \notin {"returning", "returned"} => dict = <<>>
  /\ pc \in {"thrown", "raised", "returned"} => (gil = "preprocess" <=> ~ release)

\* a compile spec with a Tensor list under "forward"/"inputs" and another key
\* was converted and the dictionary returned
C12_Witness ==
  /\ pc = "returned"
  /\ pyMethod_calls = <<"list">>
  /\ DOMAIN method_compile_spec = {"forward", "other"}
  /\ gil = "other"

\* C13 (an If with two empty blocks resumes at its sibling): the result that
\* follows an If node whose then- and else-blocks are both empty and which has
\* a following sibling is that sibling, in the root block and in nested blocks.
C13_EmptyIfResumesAtSibling ==
  \A c \in Cursors : \A i \in 1..(Len(out[c]) - 1) :
    LET p == out[c][i] IN
    (/\ p \in AllNodes(g)
     /\ g.kind[p[2]] = "If"
     /\ IsEmpty(g, ChildBlock(p[2], 0))
     /\ IsEmpty(g, ChildBlock(p[2], 1))
     /\ Incr(g, p) # end(g, g.blk[p[2]]))
      => out[c][i + 1] = Incr(g, p)

\* C14 (no control node is empty): on a graph with a non-empty root block in
\* which every If has a non-empty child block and every Loop or With a non-empty
\* body, the results are the pre-order flattening, each node once, then
\* nullptr; and move_up is only ever called with the last node of its block.
NoEmptyControl(G) ==
  /\ ~ IsEmpty(G, RootBlock)
  /\ \A n \in 1..G.n :
       /\ G.kind[n] = "If" =>
            ~ (IsEmpty(G, ChildBlock(n, 0)) /\ IsEmpty(G, ChildBlock(n, 1)))
       /\ G.kind[n] \in {"Loop", "With"} => ~ IsEmpty(G, ChildBlock(n, 0))

IsLastOfBlock(G, p) == p[1] = "node" /\ Incr(G, p) = end(G, G.blk[p[2]])

C14_NoEmptyControlCorrect ==
  \A c \in Cursors :
    NoEmptyControl(g) =>
      /\ \A i \in 1..Len(out[c]) : out[c][i] = RefResult(g, i)
      /\ LET ups == move_next(g, current_[c]).ups
         IN  \A i \in 1..Len(ups) : IsLastOfBlock(g, ups[i])

\* a graph with nested non-empty control nodes was traversed to exhaustion
C14_Witness ==
  \E c \in Cursors :
    /\ NoEmptyControl(g)
    /\ \E n \in 1..g.n : IsControl(g, n) /\ g.blk[n] # RootBlock
    /\ Exhausted(c)
    /\ Len(BeforeExhaustion(c)) = g.n

\* C15 (conditional descent): the result that follows an If node is the first
\* node of its then-block if that block is non-empty, otherwise the first node
\* of its else-block if that one is non-empty; root [A, If(then=[], else=[C]), D]
\* yields A, If, C, D, nullptr.
EmptyThen ==
  [n |-> 4, kind |-> <<"Plain", "If", "Plain", "Plain">>,
   blk |-> <<0, 0, ChildBlock(2, 1), 0>>]

C15_ConditionalDescent ==
  \A c \in Cursors :
    /\ \A i \in 1..(Len(out[c]) - 1) :
         LET p == out[c][i] IN
         (p \in AllNodes(g) /\ g.kind[p[2]] = "If") =>
           /\ ~ IsEmpty(g, ChildBlock(p[2], 0)) =>
                out[c][i + 1] = NodePtr(SetMin(NodesIn(g, ChildBlock(p[2], 0))))
           /\ (IsEmpty(g, ChildBlock(p[2], 0)) /\ ~ IsEmpty(g, ChildBlock(p[2], 1))) =>
                out[c][i + 1] = NodePtr(SetMin(NodesIn(g, ChildBlock(p[2], 1))))
    /\ g = EmptyThen =>
         \A i \in 1..Len(out[c]) :
           out[c][i] = IF i <= 4 THEN NodePtr(i) ELSE NullIt

\* the If with the empty then-block was passed and the traversal exhausted
C15_Witness ==
  \E c \in Cursors : g = EmptyThen /\ Exhausted(c)

\* C16 (then-to-else fall-through): the result that follows a Plain node at the
\* end of an If's then-block is the first node of the If's else-block when that
\* block is non-empty; with an empty else-block, and after the Plain node at
\* the end of the else-block, it is the node that follows the If.
C16_ThenFallsThroughToElse ==
  \A c \in Cursors : \A i \in 1..(Len(out[c]) - 1) :
    LET p == out[c][i] IN
    (/\ p \in AllNodes(g)
     /\ g.kind[p[2]] = "Plain"
     /\ IsLastOfBlock(g, p)
     /\ g.blk[p[2]] # RootBlock
     /\ g.kind[g.blk[p[2]] \div 2] = "If")
      => LET N == g.blk[p[2]] \div 2 IN
         IF g.blk[p[2]] = ChildBlock(N, 0) /\ ~ IsEmpty(g, ChildBlock(N, 1))
         THEN out[c][i + 1] = NodePtr(SetMin(NodesIn(g, ChildBlock(N, 1))))
         ELSE out[c][i + 1] = RefSucc(g, p)

\* an If with both blocks non-empty and a following sibling was traversed
C16_Witness ==
  \E c \in Cursors : \E N \in 1..g.n :
    /\ g.kind[N] = "If"
    /\ ~ IsEmpty(g, ChildBlock(N, 0))
    /\ ~ IsEmpty(g, ChildBlock(N, 1))
    /\ Incr(g, NodePtr(N)) \in AllNodes(g)
    /\ Positions(c, Incr(g, NodePtr(N))) # {}

RECURSIVE AncestorSibling(_, _)
\* the sibling that follows the nearest of node n and its owners that has one
AncestorSibling(G, n) ==
  IF ~ IsLastOfBlock(G, NodePtr(n)) THEN Incr(G, NodePtr(n))
  ELSE IF G.blk[n] = RootBlock THEN NullIt
  ELSE AncestorSibling(G, G.blk[n] \div 2)

RECURSIVE ElsePending(_, _)
\* on the way up from node n, a then-block is left whose If has a non-empty
\* else-block
ElsePending(G, n) ==
  IF ~ IsLastOfBlock(G, NodePtr(n)) \/ G.blk[n] = RootBlock THEN FALSE
  ELSE LET o == G.blk[n] \div 2 IN
       \/ /\ G.kind[o] = "If"
          /\ G.blk[n] = ChildBlock(o, 0)
          /\ ~ IsEmpty(G, ChildBlock(o, 1))
       \/ ElsePending(G, o)

\* number of blocks between node n and the root block
RECURSIVE Depth(_, _)
Depth(G, n) == IF G.blk[n] = RootBlock THEN 0 ELSE 1 + Depth(G, G.blk[n] \div 2)

\* C17 (multi-level climb): the result that follows a Plain node that is the
\* last of its block, when every owner up the chain is the last of its block
\* too and no non-empty else-block is pending, is the sibling following the
\* nearest owner that has one, at any depth, and nullptr when no owner has one;
\* root [A, Region(body=[B, Region(body=[C])]), D] yields A, R1, B, R2, C, D,
\* nullptr.
C17_MultiLevelClimb ==
  \A c \in Cursors :
    /\ \A i \in 1..(Len(out[c]) - 1) :
         LET p == out[c][i] IN
         (/\ p \in AllNodes(g)
          /\ g.kind[p[2]] = "Plain"
          /\ IsLastOfBlock(g, p)
          /\ ~ ElsePending(g, p[2]))
           => out[c][i + 1] = AncestorSibling(g, p[2])
    /\ g = NestedRegions =>
         \A i \in 1..Len(out[c]) :
           out[c][i] = IF i <= 6 THEN NodePtr(i) ELSE NullIt

\* after a Plain node two blocks deep the sibling of its owner's owner was returned
C17_Witness ==
  \E c \in Cursors : \E i \in 1..(Len(out[c]) - 1) :
    /\ g = NestedRegions
    /\ out[c][i] = NodePtr(5)
    /\ Depth(g, 5) = 2
    /\ out[c][i + 1] = NodePtr(6)

\* C18 (cursor position): on a graph with a non-empty root block the cursor is,
\* after construction and after every next(), the default iterator or on a
\* node; it never rests on the end of a block, and next() never returns an end
\* sentinel.
C18_OnNodeOrExhausted ==
  \A c \in Cursors :
    ~ IsEmpty(g, RootBlock) =>
      /\ current_[c] \in AllNodes(g) \cup {NullIt}
      /\ \A i \in 1..Len(out[c]) : out[c][i] \in AllNodes(g) \cup {NullIt}

\* a graph with an empty child block was traversed to exhaustion
C18_Witness ==
  \E c \in Cursors : \E n \in 1..g.n :
    /\ IsControl(g, n)
    /\ IsEmpty(g, ChildBlock(n, 0))
    /\ Positions(c, NodePtr(n)) # {}
    /\ Exhausted(c)

\* C19 (no error from a root traversal): a cursor constructed on the root
\* block never throws, whatever next() calls are made, also when nodes of
\* other kinds own child blocks: those blocks are never entered.
C19_RootTraversalNeverThrows ==
  \A c \in Cursors :
    /\ thrown[c] = "none"
    /\ move_next(g, current_[c]).thrown = "none"

\* a node of another kind that owns a non-empty block was passed and the
\* traversal exhausted
C19_Witness ==
  \E c \in Cursors : \E n \in 1..g.n :
    /\ g.kind[n] = "Plain"
    /\ ~ IsEmpty(g, ChildBlock(n, 0))
    /\ Positions(c, NodePtr(n)) # {}
    /\ Exhausted(c)

====
